---------------------------- MODULE Spec2Model ----------------------------
(***************************************************************************)
(* A model of SPR_to_ADLP_Funct_8K.py: the pipeline                        *)
(* spr_create_dot_upload_file and the three functions it calls,            *)
(* rename_images, calc_max_theory_disp and spr_displacement_top_conc.      *)
(*                                                                         *)
(* Conventions.                                                            *)
(*   - A Python str on which the code does string work (split, slice,      *)
(*     int(), concatenation) is a sequence of one-character strings; the   *)
(*     extension ".png" is one element.  Other strings are TLA+ strings.   *)
(*   - A float is a fixed-point integer counted in thousandths (1.0 is     *)
(*     1000), so that rounding to two decimals is a real operation.        *)
(*   - A DataFrame is a sequence of records (its rows, in index order      *)
(*     0..n-1 after reset_index); NaN is the value NaN.                    *)
(***************************************************************************)
EXTENDS Integers, Sequences, FiniteSets, TLC

VARIABLES
    pc,            \* the stage of spr_create_dot_upload_file about to run
    err,           \* the exception that ended the run, or NoErr
    cwd,           \* os.getcwd() of the process
    readLog,       \* the data sources read so far, in order
    config,        \* the values of the configuration file
    df_cmpd_set,   \* the compound-set table once loaded (the caller's DataFrame)
    src,           \* the contents of the input files: the compound-set
                   \* table, the kinetics export, the report-point export
    df_ss_senso,   \* df_ss_and_senso_txt: the kinetics/steady-state rows
    img_dir,       \* image directory -> the set of file names in it
    fc_arr,        \* immobilized_fc_arr
    max_theory,    \* the Series calc_max_theory_disp returned
    percent_disp,  \* the Series spr_displacement_top_conc returned
    joined,        \* df_rpt_pts_trim after merge, drop_duplicates and sort
    df_final,      \* df_final_for_dot: [cols, rows]
    saved          \* whether writer.save() has written the spreadsheet

vars == <<pc, err, cwd, readLog, config, src, df_cmpd_set, df_ss_senso,
          img_dir, fc_arr, max_theory, percent_disp, joined, df_final, saved>>

NoErr == "none"
\* a missing cell of a string column (a value no file name or label equals)
NaN == <<"NaN">>

-----------------------------------------------------------------------------
(* Sequences *)

Range(s) == {s[i] : i \in 1..Len(s)}

Min(a, b) == IF a < b THEN a ELSE b

RECURSIVE InsertByChannel(_, _)
InsertByChannel(sorted, row) ==
    IF sorted = <<>> THEN <<row>>
    ELSE IF row.Channel < Head(sorted).Channel THEN <<row>> \o sorted
    ELSE <<Head(sorted)>> \o InsertByChannel(Tail(sorted), row)

RECURSIVE SortByChannel(_)
\* df.sort_values(['Channel']).reset_index(drop=True): ascending by the numeric
\* value of Channel; rows of equal Channel keep their order
SortByChannel(s) ==
    IF s = <<>> THEN <<>>
    ELSE InsertByChannel(SortByChannel(SubSeq(s, 1, Len(s) - 1)), s[Len(s)])

-----------------------------------------------------------------------------
(* Strings *)

Digits == <<"0", "1", "2", "3", "4", "5", "6", "7", "8", "9">>

IsDigit(c) == \E d \in 1..10 : Digits[d] = c

DigitVal(c) == (CHOOSE d \in 1..10 : Digits[d] = c) - 1

RECURSIVE IntToStr(_)
\* str(n) for n >= 0
IntToStr(n) ==
    IF n < 10 THEN <<Digits[n + 1]>>
    ELSE IntToStr(n \div 10) \o <<Digits[(n % 10) + 1]>>

RECURSIVE DigitsValue(_)
DigitsValue(s) ==
    IF s = <<>> THEN 0
    ELSE 10 * DigitsValue(SubSeq(s, 1, Len(s) - 1)) + DigitVal(s[Len(s)])

\* int(s): the value of a non-empty string of decimal digits; anything else
\* raises ValueError
CanParseInt(s) == s # <<>> /\ \A i \in 1..Len(s) : IsDigit(s[i])

ParseInt(s) == DigitsValue(s)

RECURSIVE Split(_, _)
\* s.split(sep) for a one-character sep
Split(s, sep) ==
    IF \A i \in 1..Len(s) : s[i] # sep THEN <<s>>
    ELSE LET k == CHOOSE i \in 1..Len(s) :
                      s[i] = sep /\ \A j \in 1..(i - 1) : s[j] # sep
         IN  <<SubSeq(s, 1, k - 1)>> \o Split(SubSeq(s, k + 1, Len(s)), sep)

\* s[lo:hi] with 0-based lo and exclusive hi, clipped to the string
Slice(s, lo, hi) == SubSeq(s, lo + 1, Min(hi, Len(s)))

\* s.replace(c, '') for a one-character c
RemoveChar(s, c) == SelectSeq(s, LAMBDA x : x # c)

-----------------------------------------------------------------------------
(* Numbers *)

\* round(x, 2) of a value counted in thousandths: to the nearest hundredth,
\* a tie going to the even hundredth
Round2(x) ==
    LET q == x \div 10
        r == x % 10
    IN  IF r < 5 THEN 10 * q
        ELSE IF r > 5 THEN 10 * (q + 1)
        ELSE IF q % 2 = 0 THEN 10 * q ELSE 10 * (q + 1)

\* n / d rounded to the nearest integer, a tie going to the even one (d # 0)
RoundDiv(n, d) ==
    LET nn == IF d < 0 THEN -n ELSE n
        dd == IF d < 0 THEN -d ELSE d
        q  == nn \div dd
        r  == nn - q * dd
    IN  IF 2 * r < dd THEN q
        ELSE IF 2 * r > dd THEN q + 1
        ELSE IF q % 2 = 0 THEN q ELSE q + 1

\* A cell of a numeric column: a number, NaN, or an infinity
Num(x) == [v |-> x]
NanNum == [nan |-> TRUE]
Inf(sign) == [inf |-> sign]
IsNum(cell) == cell \notin {NanNum, Inf(1), Inf(-1)}

\* series[i] of a Series indexed 0..n-1, aligned to the i-th row of a frame
CellAt(series, i) == IF i <= Len(series) THEN Num(series[i]) ELSE NanNum

-----------------------------------------------------------------------------
(* calc_max_theory_disp *)

LateName == "A-B-A binding late_1"

\* df_filter of one flow channel: its Corrected late-binding rows of
\* concentration 0, in report order
BlankRows(rpt, fc) ==
    SelectSeq(rpt, LAMBDA r : /\ r.Channel = fc
                              /\ r.SensorgramType = "Corrected"
                              /\ r.Name = LateName
                              /\ r.Conc = 0)

BlanksList(rpt, fc) ==
    LET rows == BlankRows(rpt, fc)
    IN  [i \in 1..Len(rows) |-> rows[i].RelResp]

RECURSIVE SumSeq(_)
SumSeq(s) == IF s = <<>> THEN 0 ELSE Head(s) + SumSeq(Tail(s))

\* A variant that averages every two neighbouring blanks (a window sliding by
\* one) instead of consecutive pairs
AvgBlanksSliding(blanks_list) ==
    [k \in 1..(Len(blanks_list) - 1) |-> (blanks_list[k] + blanks_list[k + 1]) \div 2]

\* [sum(blanks_list[i: i + 2]) / 2 for i in range(0, len(blanks_list), 2)]
\* (the responses of the model are even, so the division is exact)
AvgBlanksPerFc(blanks_list) ==
    [k \in 1..((Len(blanks_list) + 1) \div 2) |->
        SumSeq(SubSeq(blanks_list, 2 * k - 1, Min(2 * k, Len(blanks_list)))) \div 2]

RECURSIVE LsMaxTheory(_, _)
\* ls_max_theory after the loop over fc_used_arr
LsMaxTheory(rpt, fc_used_arr) ==
    IF fc_used_arr = <<>> THEN <<>>
    ELSE LET n == Len(fc_used_arr)
         IN  LsMaxTheory(rpt, SubSeq(fc_used_arr, 1, n - 1))
                 \o AvgBlanksPerFc(BlanksList(rpt, fc_used_arr[n]))

\* ls_max_theory_neg, the values of the Series returned
calc_max_theory_disp(rpt, fc_used_arr) ==
    LET ls == LsMaxTheory(rpt, fc_used_arr)
    IN  [i \in 1..Len(ls) |-> ls[i] * (-1)]

-----------------------------------------------------------------------------
(* spr_displacement_top_conc *)

\* pd.read_excel succeeds on a path that names an export and raises on any
\* other; MissingFile is a path at which there is no file
MissingFile == "missing.xlsx"

CanReadExcel(path) == path # MissingFile

\* lines 69-71: the three row filters
TrimRptPts(rpt) ==
    LET analysis  == SelectSeq(rpt, LAMBDA r : r.StepPurpose = "Analysis")
        corrected == SelectSeq(analysis, LAMBDA r : r.SensorgramType = "Corrected")
    IN  SelectSeq(corrected, LAMBDA r : r.Name = LateName)

\* line 75: the flanking-solution label up to its first '_'
RptBrdMerge(r) == Split(r.Flank, "_")[1]

\* line 76: 'BRD-' + Broad ID[9:13]
CmpdBrdMerge(c) == <<"B", "R", "D", "-">> \o Slice(c.BroadID, 9, 13)

\* lines 76-85: what the call leaves in the caller's df_cmpd_set
CmpdSetKeyed(cmpd) ==
    [i \in 1..Len(cmpd) |->
        [BroadID   |-> cmpd[i].BroadID,
         TestCpd   |-> Round2(cmpd[i].TestCpd),
         MW        |-> cmpd[i].MW,
         BRD_MERGE |-> CmpdBrdMerge(cmpd[i])]]

\* A variant that keeps the report-point concentration as exported
RptKeyedUnrounded(trim) ==
    [i \in 1..Len(trim) |-> [BRD_MERGE |-> RptBrdMerge(trim[i])] @@ trim[i]]

\* lines 75 and 84: the report-point rows with their key columns
RptKeyed(trim) ==
    [i \in 1..Len(trim) |->
        [Cycle          |-> trim[i].Cycle,
         Channel        |-> trim[i].Channel,
         SensorgramType |-> trim[i].SensorgramType,
         Name           |-> trim[i].Name,
         StepPurpose    |-> trim[i].StepPurpose,
         RelResp        |-> trim[i].RelResp,
         Conc           |-> Round2(trim[i].Conc),
         Flank          |-> trim[i].Flank,
         BRD_MERGE      |-> RptBrdMerge(trim[i])]]

MergeKeysMatch(l, c) == l.BRD_MERGE = c.BRD_MERGE /\ l.Conc = c.TestCpd

MergedRow(l, c) ==
    [Cycle          |-> l.Cycle,
     Channel        |-> l.Channel,
     SensorgramType |-> l.SensorgramType,
     Name           |-> l.Name,
     StepPurpose    |-> l.StepPurpose,
     RelResp        |-> l.RelResp,
     Conc           |-> l.Conc,
     Flank          |-> l.Flank,
     BRD_MERGE      |-> l.BRD_MERGE,
     BroadID        |-> c.BroadID,
     TestCpd        |-> c.TestCpd,
     MW             |-> c.MW]

\* the rows one left row yields: one per matching right row, in right order
MatchesOf(l, right) ==
    LET hits == SelectSeq(right, LAMBDA c : MergeKeysMatch(l, c))
    IN  [j \in 1..Len(hits) |-> MergedRow(l, hits[j])]

RECURSIVE MergeInner(_, _)
\* lines 88-90: pd.merge(how='inner'), in the order of the left rows
MergeInner(left, right) ==
    IF left = <<>> THEN <<>>
    ELSE MatchesOf(Head(left), right) \o MergeInner(Tail(left), right)

SamePair(a, b) == a.Flank = b.Flank /\ a.Conc = b.Conc

\* A variant that keeps every row of the merge
KeepAllRows(rows) == rows

RECURSIVE DropDuplicates(_)
\* line 93: drop_duplicates on (flanking solution, concentration), the first
\* row of each pair kept
DropDuplicates(rows) ==
    IF rows = <<>> THEN <<>>
    ELSE LET n    == Len(rows)
             init == SubSeq(rows, 1, n - 1)
         IN  IF \E i \in 1..(n - 1) : SamePair(rows[i], rows[n])
             THEN DropDuplicates(init)
             ELSE Append(DropDuplicates(init), rows[n])

\* lines 75-97 on the filtered rows
JoinTopConc(trim, cmpd) ==
    SortByChannel(DropDuplicates(MergeInner(RptKeyed(trim), CmpdSetKeyed(cmpd))))

\* line 99
SeriesPercentDispTop(rows) ==
    [i \in 1..Len(rows) |-> Round2(rows[i].RelResp * (-1))]

InstrumentRejected(instrument) == instrument = "Biacore8k"

\* The call: the exception it raises (or NoErr), whether it read the report
\* file, the caller's compound-set table after it, the joined rows and the
\* Series returned.
spr_displacement_top_conc(report_pt_file, rpt, cmpd, instrument) ==
    LET fail(e, rd) == [err |-> e, read |-> rd, cmpd |-> cmpd,
                        joined |-> <<>>, series |-> <<>>]
    IN  IF InstrumentRejected(instrument) THEN fail("ValueError", FALSE)
        ELSE IF ~CanReadExcel(report_pt_file) THEN fail("FileNotFoundError", FALSE)
        ELSE LET trim == TrimRptPts(rpt)
             IN  \* split(expand=True) of no rows has no column 0
                 IF trim = <<>> THEN fail("KeyError", TRUE)
                 ELSE LET rows == JoinTopConc(trim, cmpd)
                      IN  [err    |-> NoErr,
                           read   |-> TRUE,
                           cmpd   |-> CmpdSetKeyed(cmpd),
                           joined |-> rows,
                           series |-> SeriesPercentDispTop(rows)]

-----------------------------------------------------------------------------
(* rename_images *)

Png == ".png"

\* line 178: the file name up to its first '-'
ChannelPrefix(name) == Split(name, "-")[1]

\* lines 174-183: df_img_files, one row per listed file with its parsed
\* channel, sorted by the channel's numeric value
ImgRows(listing) ==
    [i \in 1..Len(listing) |->
        [Original_Name |-> listing[i],
         Channel       |-> ParseInt(ChannelPrefix(listing[i]))]]

DfImgFiles(listing) == SortByChannel(ImgRows(listing))

\* A variant of the name below that puts the image's channel first, as the
\* instrument's own names do
NewNameChannelFirst(df, img, i, raw_data_file_name, rand_int) ==
    IF i > Len(df) THEN NaN
    ELSE IntToStr(img[i].Channel) \o <<"-">> \o df[i].Solution \o <<"_">>
             \o raw_data_file_name \o <<"_">> \o IntToStr(rand_int) \o <<Png>>

\* lines 190-191: the new name of the i-th image row; past the last kinetics
\* row the index alignment leaves NaN
NewName(df, img, i, raw_data_file_name, rand_int) ==
    IF i > Len(df) THEN NaN
    ELSE df[i].Solution \o <<"_">> \o raw_data_file_name \o <<"_">>
             \o IntToStr(rand_int) \o <<"_">> \o IntToStr(img[i].Channel)
             \o <<Png>>

RECURSIVE RenameLoop(_, _, _, _, _)
\* lines 194-197: os.rename of the rows from the i-th on.  A NaN target is a
\* TypeError, a source that is no longer there a FileNotFoundError, and the
\* operating system may refuse the fail_at-th rename (OSError); an existing
\* target is replaced.
RenameLoop(img, new_names, i, files, fail_at) ==
    IF i > Len(img) THEN [err |-> NoErr, files |-> files]
    ELSE IF new_names[i] = NaN THEN [err |-> "TypeError", files |-> files]
    ELSE IF img[i].Original_Name \notin files
         THEN [err |-> "FileNotFoundError", files |-> files]
    ELSE IF i = fail_at THEN [err |-> "OSError", files |-> files]
    ELSE RenameLoop(img, new_names, i + 1,
                    (files \ {img[i].Original_Name}) \cup {new_names[i]}, fail_at)

ImgColumn(image_type) ==
    IF image_type = "ss" THEN "Steady_State_Img" ELSE "Senso_Img"

\* lines 200-203: the image column added to (or replaced in) the sorted rows
WithImgColumn(df, new_names, image_type) ==
    [i \in 1..Len(df) |->
        [c \in {ImgColumn(image_type)} |->
            IF i <= Len(new_names) THEN new_names[i] ELSE NaN] @@ df[i]]

\* The call on a directory holding `files`, which glob lists in the order
\* `listing`: the exception raised (or NoErr), the working directory and the
\* directory's files at exit, and the DataFrame returned.
rename_images(df_in, path_img, files, listing, image_type, raw, rand_int, fail_at, my_dir) ==
    LET df == SortByChannel(df_in)
        fail(e, fs) == [err |-> e, cwd |-> path_img, files |-> fs, df |-> df]
    IN  \* line 175: one column name for a frame of no columns
        IF listing = <<>> THEN fail("ValueError", files)
        \* line 179: astype(int)
        ELSE IF \E i \in 1..Len(listing) : ~CanParseInt(ChannelPrefix(listing[i]))
             THEN fail("ValueError", files)
        ELSE LET img       == DfImgFiles(listing)
                 new_names == [i \in 1..Len(img) |->
                                  NewName(df, img, i, raw, rand_int)]
                 loop      == RenameLoop(img, new_names, 1, files, fail_at)
             IN  IF loop.err # NoErr THEN fail(loop.err, loop.files)
                 ELSE [err   |-> NoErr,
                       cwd   |-> my_dir,
                       files |-> loop.files,
                       df    |-> WithImgColumn(df, new_names, image_type)]

-----------------------------------------------------------------------------
(* spr_create_dot_upload_file: the configuration *)

RECURSIVE StripSpaces(_)
\* s.strip(" ")
StripSpaces(s) ==
    IF s = <<>> THEN s
    ELSE IF Head(s) = " " THEN StripSpaces(Tail(s))
    ELSE IF s[Len(s)] = " " THEN StripSpaces(SubSeq(s, 1, Len(s) - 1))
    ELSE s

\* lines 252-255: the entries of the comma-separated immobilized_fc
ImmobilizedFcEntries(text) == Split(RemoveChar(StripSpaces(text), " "), ",")

\* line 256
ImmobilizedFcArr(text) ==
    LET parts == ImmobilizedFcEntries(text)
    IN  [i \in 1..Len(parts) |-> ParseInt(parts[i])]

\* line 258, when both sides parse
ChannelCountMismatch(cfg) ==
    ParseInt(cfg.num_fc_used) # Len(ImmobilizedFcEntries(cfg.immobilized_fc))

\* A variant that never compares the two channel counts
ConfigRejectedUncounted(cfg) ==
    \/ \E i \in 1..Len(ImmobilizedFcEntries(cfg.immobilized_fc)) :
           ~CanParseInt(ImmobilizedFcEntries(cfg.immobilized_fc)[i])
    \/ ~CanParseInt(cfg.num_fc_used)

\* lines 228-310: whether the try block raises, which the except clause turns
\* into RuntimeError
ConfigRejected(cfg) ==
    \/ \E i \in 1..Len(ImmobilizedFcEntries(cfg.immobilized_fc)) :
           ~CanParseInt(ImmobilizedFcEntries(cfg.immobilized_fc)[i])
    \/ ~CanParseInt(cfg.num_fc_used)
    \/ ChannelCountMismatch(cfg)

\* lines 234-238: the source the compound-set table is read from
CmpdSetSource(cfg) == IF cfg.clip THEN "clipboard" ELSE "path_mstr_tbl"

-----------------------------------------------------------------------------
(* The inputs of the runs explored *)

BroadIdA == <<"B", "R", "D", "-", "K", "0", "0", "0", "0", "6", "9", "9", "4", "-", "0", "0", "1">>
BroadIdB == <<"B", "R", "D", "-", "K", "0", "0", "0", "0", "7", "2", "7", "9", "-", "0", "0", "1">>

LabelA  == <<"B", "R", "D", "-", "6", "9", "9", "4", "_", "s">>
LabelA2 == <<"B", "R", "D", "-", "6", "9", "9", "4", "_", "t">>
LabelB  == <<"B", "R", "D", "-", "7", "2", "7", "9", "_", "s">>

\* raw_data_filename: one of three '_'-separated pieces, one of a single piece
RawLong  == <<"1", "9", "0", "9", "1", "6", "_", "r", "_", "f">>
RawShort == <<"r", "a", "w">>

ProjectCode    == <<"7", "2", "7", "9">>
ExperimentDate == <<"1", "9", "0", "9", "1", "6">>

StartDir     == <<"/work">>
PathSsImg    == <<"/Volumes", "/", "s", "s">>
PathSensoImg == <<"/Volumes", "/", "s", "e">>

\* an image file as the instrument names it: "<prefix>-<tag>.png"
ImgName(prefix, tag) == prefix \o <<"-", tag, Png>>

RptRow(cycle, channel, sens, name, purpose, resp, conc, flank) ==
    [Cycle |-> cycle, Channel |-> channel, SensorgramType |-> sens,
     Name |-> name, StepPurpose |-> purpose, RelResp |-> resp, Conc |-> conc,
     Flank |-> flank]

KinRow(channel, solution, kd_m, ka, kd, kd_m1) ==
    [Channel |-> channel, Solution |-> solution, KD |-> kd_m, ka |-> ka,
     kd |-> kd, KD1 |-> kd_m1]

CmpdRow(id, conc, mw) == [BroadID |-> id, TestCpd |-> conc, MW |-> mw]

\* Compound-set tables: in channel order, in the opposite order, and of one row
PipeCmpdSets ==
    { <<CmpdRow(BroadIdA, 50004, 300000), CmpdRow(BroadIdB, 25000, 410000)>>,
      <<CmpdRow(BroadIdB, 25000, 410000), CmpdRow(BroadIdA, 50004, 300000)>>,
      <<CmpdRow(BroadIdA, 50004, 300000)>> }

\* Report-point exports: one blank pair per channel; two pairs on channel 1;
\* no Analysis row at all
PipeReports ==
    { << RptRow(1, 1, "Corrected", LateName, "Analysis", -10000, 0, LabelA),
         RptRow(2, 1, "Corrected", LateName, "Analysis", -12000, 0, LabelA),
         RptRow(1, 2, "Corrected", LateName, "Analysis", -8000, 0, LabelB),
         RptRow(2, 2, "Corrected", LateName, "Analysis", -6000, 0, LabelB),
         RptRow(3, 2, "Corrected", LateName, "Analysis", -3000, 25000, LabelB),
         RptRow(3, 1, "Corrected", LateName, "Analysis", -4500, 50000, LabelA),
         RptRow(3, 1, "Raw", LateName, "Analysis", -9000, 50000, LabelA) >>,
      << RptRow(1, 1, "Corrected", LateName, "Analysis", -10000, 0, LabelA),
         RptRow(2, 1, "Corrected", LateName, "Analysis", -12000, 0, LabelA),
         RptRow(3, 1, "Corrected", LateName, "Analysis", -8000, 0, LabelA),
         RptRow(4, 1, "Corrected", LateName, "Analysis", -6000, 0, LabelA),
         RptRow(1, 2, "Corrected", LateName, "Analysis", -2000, 0, LabelB),
         RptRow(2, 2, "Corrected", LateName, "Analysis", -4000, 0, LabelB),
         RptRow(5, 1, "Corrected", LateName, "Analysis", -4500, 50000, LabelA),
         RptRow(5, 2, "Corrected", LateName, "Analysis", -3000, 25000, LabelB) >>,
      << RptRow(1, 1, "Corrected", LateName, "Startup", -10000, 0, LabelA),
         RptRow(2, 1, "Corrected", LateName, "Startup", -12000, 0, LabelA) >> }

\* Kinetics exports: one row per channel, in either order
PipeKinetics ==
    { <<KinRow(1, LabelA, 2, 7000, 14, 3), KinRow(2, LabelB, 5, 9000, 45, 6)>>,
      <<KinRow(2, LabelB, 5, 9000, 45, 6), KinRow(1, LabelA, 2, 7000, 14, 3)>> }

\* Image directories: empty; one image per channel; fewer images than
\* kinetics rows
PipeSsDirs ==
    { {},
      {ImgName(<<"1">>, "a"), ImgName(<<"2">>, "a")},
      {ImgName(<<"1">>, "a")} }

PipeSensoDirs ==
    { {},
      {ImgName(<<"1">>, "b"), ImgName(<<"2">>, "b")} }

OrigImageNames == UNION (PipeSsDirs \cup PipeSensoDirs)

PipeConfigs ==
    [ clip             : BOOLEAN,
      num_fc_used      : {<<"1">>, <<"2">>},
      immobilized_fc   : {<<"1", ",", "2">>, <<"2", ",", " ", "1">>, <<"1">>, <<"1", ",">>},
      instrument       : {"Biacore8k", "BiacoreS200"},
      path_report_pt   : {"report.xlsx", MissingFile},
      raw_data_filename : {RawLong, RawShort} ]

EmptyFinal == [cols |-> <<>>, rows |-> <<>>]

\* np.random.randint(low=10, high=99): the two extremes
RandLow  == 10
RandHigh == 99
RandSample == {RandLow, RandHigh - 1}

\* the orders in which glob may list a directory's files
Listings(files) ==
    {l \in [1..Cardinality(files) -> files] : Range(l) = files}

-----------------------------------------------------------------------------
(* spr_create_dot_upload_file: the stages *)

Init ==
    /\ pc = "load"
    /\ err = NoErr
    /\ cwd = StartDir
    /\ readLog = <<>>
    /\ config \in PipeConfigs
    /\ \E c \in PipeCmpdSets, k \in PipeKinetics, r \in PipeReports :
           src = [cmpd_set |-> c, ss_and_senso |-> k, report_pt |-> r]
    /\ df_cmpd_set = <<>>
    /\ df_ss_senso = <<>>
    /\ \E ss \in PipeSsDirs, se \in PipeSensoDirs :
           img_dir = [d \in {PathSsImg, PathSensoImg} |->
                          IF d = PathSsImg THEN ss ELSE se]
    /\ fc_arr = <<>>
    /\ max_theory = <<>>
    /\ percent_disp = <<>>
    /\ joined = <<>>
    /\ df_final = EmptyFinal
    /\ saved = FALSE

\* lines 228-310: read the configuration and the compound-set table, check it
LoadConfig ==
    /\ pc = "load"
    /\ readLog' = Append(readLog, CmpdSetSource(config))
    /\ IF ConfigRejected(config)
       THEN /\ pc' = "failed"
            /\ err' = "RuntimeError"
            /\ UNCHANGED <<df_cmpd_set, fc_arr>>
       ELSE /\ pc' = "read_kinetics"
            /\ df_cmpd_set' = src.cmpd_set
            /\ fc_arr' = ImmobilizedFcArr(config.immobilized_fc)
            /\ UNCHANGED err
    /\ UNCHANGED <<cwd, config, src, df_ss_senso, img_dir, max_theory,
                   percent_disp, joined, df_final, saved>>

\* line 317: read the kinetics/steady-state export
ReadKinetics ==
    /\ pc = "read_kinetics"
    /\ readLog' = Append(readLog, "path_ss_and_senso_txt")
    /\ df_ss_senso' = src.ss_and_senso
    /\ pc' = "rename_ss"
    /\ UNCHANGED <<err, cwd, config, src, df_cmpd_set, img_dir, fc_arr,
                   max_theory, percent_disp, joined, df_final, saved>>

\* A variant of the call below in which the pipeline carries on to its next
\* stage whether rename_images returns or raises
RenameCallCarryOn(next, path_img, image_type) ==
    /\ \E listing \in Listings(img_dir[path_img]), rand_int \in RandSample,
          fail_at \in 0..Cardinality(img_dir[path_img]) :
           LET r == rename_images(df_ss_senso, path_img, img_dir[path_img], listing,
                                  image_type, config.raw_data_filename, rand_int,
                                  fail_at, cwd)
           IN  /\ cwd' = r.cwd
               /\ img_dir' = [img_dir EXCEPT ![path_img] = r.files]
               /\ err' = r.err
               /\ pc' = next
               /\ df_ss_senso' = r.df
    /\ UNCHANGED <<readLog, config, src, df_cmpd_set, fc_arr, max_theory,
                   percent_disp, joined, df_final, saved>>

\* one call of rename_images from the pipeline: glob lists the directory in
\* some order, randint draws the disambiguator, and the operating system may
\* refuse one rename
RenameCall(next, path_img, image_type) ==
    /\ \E listing \in Listings(img_dir[path_img]), rand_int \in RandSample,
          fail_at \in 0..Cardinality(img_dir[path_img]) :
           LET r == rename_images(df_ss_senso, path_img, img_dir[path_img], listing,
                                  image_type, config.raw_data_filename, rand_int,
                                  fail_at, cwd)
           IN  /\ cwd' = r.cwd
               /\ img_dir' = [img_dir EXCEPT ![path_img] = r.files]
               /\ err' = r.err
               /\ IF r.err = NoErr
                  THEN pc' = next /\ df_ss_senso' = r.df
                  ELSE pc' = "failed" /\ UNCHANGED df_ss_senso
    /\ UNCHANGED <<readLog, config, src, df_cmpd_set, fc_arr, max_theory,
                   percent_disp, joined, df_final, saved>>

\* lines 323-324
RenameSs ==
    /\ pc = "rename_ss"
    /\ RenameCall("rename_senso", PathSsImg, "ss")

\* lines 325-326
RenameSenso ==
    /\ pc = "rename_senso"
    /\ RenameCall("start_table", PathSensoImg, "senso")

\* A variant of the stage below that starts the table with one row per row
\* of the kinetics export
StartTableByKinetics ==
    /\ pc = "start_table"
    /\ df_final' =
           [cols |-> <<"BROAD_ID", "PROJECT_CODE", "CURVE_VALID",
                       "STEADY_STATE_IMG", "1to1_IMG", "TOP_COMPOUND_UM">>,
            rows |-> [i \in 1..Len(df_ss_senso) |->
                         [BROAD_ID         |-> IF i <= Len(df_cmpd_set)
                                               THEN df_cmpd_set[i].BroadID ELSE NaN,
                          PROJECT_CODE     |-> ProjectCode,
                          CURVE_VALID      |-> <<>>,
                          STEADY_STATE_IMG |-> <<>>,
                          1to1_IMG         |-> <<>>,
                          TOP_COMPOUND_UM  |-> IF i <= Len(df_cmpd_set)
                                               THEN Num(df_cmpd_set[i].TestCpd)
                                               ELSE NanNum]]]
    /\ pc' = "max_disp"
    /\ UNCHANGED <<err, cwd, readLog, config, src, df_cmpd_set, df_ss_senso,
                   img_dir, fc_arr, max_theory, percent_disp, joined, saved>>

\* lines 329-347: the first columns of df_final_for_dot, one row per row of
\* the compound-set table
StartTable ==
    /\ pc = "start_table"
    /\ df_final' =
           [cols |-> <<"BROAD_ID", "PROJECT_CODE", "CURVE_VALID",
                       "STEADY_STATE_IMG", "1to1_IMG", "TOP_COMPOUND_UM">>,
            rows |-> [i \in 1..Len(df_cmpd_set) |->
                         [BROAD_ID         |-> df_cmpd_set[i].BroadID,
                          PROJECT_CODE     |-> ProjectCode,
                          CURVE_VALID      |-> <<>>,
                          STEADY_STATE_IMG |-> <<>>,
                          1to1_IMG         |-> <<>>,
                          TOP_COMPOUND_UM  |-> Num(df_cmpd_set[i].TestCpd)]]]
    /\ pc' = "max_disp"
    /\ UNCHANGED <<err, cwd, readLog, config, src, df_cmpd_set, df_ss_senso,
                   img_dir, fc_arr, max_theory, percent_disp, joined, saved>>

\* df[col] = series: the column appended (or replaced), row i of the frame
\* taking the value the Series has at index i, NaN past its end
SetColumn(df, col, series) ==
    [cols |-> IF col \in Range(df.cols) THEN df.cols ELSE Append(df.cols, col),
     rows |-> [i \in 1..Len(df.rows) |->
                  [c \in {col} |-> CellAt(series, i)] @@ df.rows[i]]]

\* line 351: calc_max_theory_disp, its values aligned to the rows by index
MaxDisp ==
    /\ pc = "max_disp"
    /\ IF ~CanReadExcel(config.path_report_pt)
       THEN /\ pc' = "failed"
            /\ err' = "FileNotFoundError"
            /\ UNCHANGED <<readLog, max_theory, df_final>>
       ELSE LET series == calc_max_theory_disp(src.report_pt, fc_arr)
            IN  /\ readLog' = Append(readLog, "path_report_pt")
                /\ max_theory' = series
                /\ df_final' = SetColumn(df_final, "MAX_THEORETICAL_DISP_RU", series)
                /\ pc' = "top_conc"
                /\ UNCHANGED err
    /\ UNCHANGED <<cwd, config, src, df_cmpd_set, df_ss_senso, img_dir, fc_arr,
                   percent_disp, joined, saved>>

\* lines 354-356: spr_displacement_top_conc on the caller's compound-set table
TopConc ==
    /\ pc = "top_conc"
    /\ LET r == spr_displacement_top_conc(config.path_report_pt, src.report_pt,
                                          df_cmpd_set, config.instrument)
       IN  /\ err' = r.err
           /\ readLog' = IF r.read THEN Append(readLog, "path_report_pt") ELSE readLog
           /\ df_cmpd_set' = r.cmpd
           /\ joined' = r.joined
           /\ percent_disp' = r.series
           /\ pc' = IF r.err = NoErr THEN "assemble" ELSE "failed"
    /\ UNCHANGED <<cwd, config, src, df_ss_senso, img_dir, fc_arr, max_theory,
                   df_final, saved>>

\* lines 392-404: the per-channel protein descriptors of the configuration
ProteinRu(ch)  == 9000000 + 1000 * ch
ProteinMw(ch)  == 21000000 + 1000 * ch
ProteinBip(ch) == <<"B", "I", "P", "-">> \o IntToStr(ch)

\* df_ss_and_senso_txt['Channel'].map(dict): NaN off the dictionary's keys 1..8
MapChannel(df, i, dict) ==
    IF i <= Len(df) /\ df[i].Channel \in DOMAIN dict THEN dict[df[i].Channel] ELSE NanNum

\* a column of df_ss_and_senso_txt scaled by k, aligned to row i
KinCell(df, i, field, k) ==
    IF i <= Len(df) THEN Num(df[i][field] * k) ELSE NanNum

\* A variant that adds the displacement to the maximum
RuTopCmpdSum(max_cell, disp_cell) ==
    IF IsNum(max_cell) /\ IsNum(disp_cell) THEN Num(max_cell.v + disp_cell.v)
    ELSE NanNum

\* lines 359 and 362-363
RuTopCmpd(max_cell, disp_cell) ==
    IF IsNum(max_cell) /\ IsNum(disp_cell) THEN Num(max_cell.v - disp_cell.v)
    ELSE NanNum

\* round(RU_TOP_CMPD / MAX_THEORETICAL_DISP_RU * 100, 2), in thousandths; a
\* zero denominator gives an infinity, or NaN for 0 / 0.  A zero of
\* calc_max_theory_disp is the float -0.0 (an average 0.0 times -1), so the
\* infinity has the sign opposite to the numerator's.
DispTopCmpd(ru_cell, max_cell) ==
    IF ~(IsNum(ru_cell) /\ IsNum(max_cell)) THEN NanNum
    ELSE IF max_cell.v = 0
         THEN IF ru_cell.v = 0 THEN NanNum
              ELSE Inf(IF ru_cell.v > 0 THEN -1 ELSE 1)
    ELSE Num(10 * RoundDiv(ru_cell.v * 10000, max_cell.v))

\* the image name of row i of df_ss_and_senso_txt, NaN past its last row
ImgCell(df, i, col) == IF i <= Len(df) THEN df[i][col] ELSE NaN

\* line 427: Steady_State_Img.str.split('_', expand=True) has a column 5 only
\* when some name has six pieces
HasTokenColumn(df) ==
    \E i \in 1..Len(df) :
        df[i].Steady_State_Img # NaN /\ Len(Split(df[i].Steady_State_Img, "_")) >= 6

TokenCell(df, i) ==
    IF i > Len(df) THEN NaN
    ELSE IF df[i].Steady_State_Img = NaN THEN NaN
    ELSE IF Len(Split(df[i].Steady_State_Img, "_")) < 6 THEN NaN
    ELSE Split(df[i].Steady_State_Img, "_")[6]

FcLabel == <<"2", "-", "1">>

\* lines 425-427
UniqueId(df, i) ==
    IF i > Len(df) \/ TokenCell(df, i) = NaN THEN NaN
    ELSE df[i].Solution \o <<"_">> \o FcLabel \o <<"_">> \o ProjectCode
             \o <<"_">> \o ExperimentDate \o <<"_">> \o TokenCell(df, i)

\* lines 431 and 436: path.replace('/Volumes', '//flynn')
PathEdit(path) ==
    [k \in 1..Len(path) |-> IF path[k] = "/Volumes" THEN "//flynn" ELSE path[k]]

ImgId(path, img) == IF img = NaN THEN NaN ELSE PathEdit(path) \o <<"/">> \o img

\* A variant that stops after UNIQUE_ID
FinalColumnsShort ==
    <<"BROAD_ID", "PROJECT_CODE", "CURVE_VALID", "STEADY_STATE_IMG", "1to1_IMG",
      "TOP_COMPOUND_UM", "MAX_THEORETICAL_DISP_RU", "RU_TOP_CMPD", "DISP_TOP_CMPD",
      "IC50_UM", "KA_1_1_BINDING", "KD_LITTLE_1_1_BINDING", "KD_1_1_BINDING_UM",
      "COMMENTS", "FC", "PROTEIN_RU", "PROTEIN_MW", "PROTEIN_ID",
      "PROTEIN_FLOATED_ID", "PROTEIN_FLOATED_CONC_UM", "PROTEIN_FLOATED_MW", "MW",
      "INSTRUMENT", "EXP_DATE", "NUCLEOTIDE", "CHIP_LOT", "OPERATOR", "PROTOCOL_ID",
      "RAW_DATA_FILE", "DIR_FOLDER", "UNIQUE_ID">>

\* lines 440-445: the columns of the table written, in order
FinalColumns ==
    <<"BROAD_ID", "PROJECT_CODE", "CURVE_VALID", "STEADY_STATE_IMG", "1to1_IMG",
      "TOP_COMPOUND_UM", "MAX_THEORETICAL_DISP_RU", "RU_TOP_CMPD", "DISP_TOP_CMPD",
      "IC50_UM", "KA_1_1_BINDING", "KD_LITTLE_1_1_BINDING", "KD_1_1_BINDING_UM",
      "COMMENTS", "FC", "PROTEIN_RU", "PROTEIN_MW", "PROTEIN_ID",
      "PROTEIN_FLOATED_ID", "PROTEIN_FLOATED_CONC_UM", "PROTEIN_FLOATED_MW", "MW",
      "INSTRUMENT", "EXP_DATE", "NUCLEOTIDE", "CHIP_LOT", "OPERATOR", "PROTOCOL_ID",
      "RAW_DATA_FILE", "DIR_FOLDER", "UNIQUE_ID", "SS_IMG_ID", "SENSO_IMG_ID">>

\* lines 359-437: the columns added after the two metric calls, in the order
\* the code adds them
AssembledColumns ==
    <<"RU_TOP_CMPD", "DISP_TOP_CMPD", "IC50_UM", "KA_1_1_BINDING",
      "KD_LITTLE_1_1_BINDING", "KD_1_1_BINDING_UM", "COMMENTS", "FC", "PROTEIN_RU",
      "PROTEIN_MW", "PROTEIN_ID", "PROTEIN_FLOATED_ID", "PROTEIN_FLOATED_CONC_UM",
      "PROTEIN_FLOATED_MW", "MW", "INSTRUMENT", "EXP_DATE", "NUCLEOTIDE", "CHIP_LOT",
      "OPERATOR", "PROTOCOL_ID", "RAW_DATA_FILE", "DIR_FOLDER", "UNIQUE_ID",
      "SS_IMG_ID", "SENSO_IMG_ID">>

\* row i of df_final_for_dot after lines 359-437
AssembledRow(i) ==
    LET base == df_final.rows[i]
        kin  == df_ss_senso
        ru   == RuTopCmpd(base.MAX_THEORETICAL_DISP_RU, CellAt(percent_disp, i))
    IN  [RU_TOP_CMPD             |-> ru,
         DISP_TOP_CMPD           |-> DispTopCmpd(ru, base.MAX_THEORETICAL_DISP_RU),
         IC50_UM                 |-> KinCell(kin, i, "KD", 1000000),
         KA_1_1_BINDING          |-> KinCell(kin, i, "ka", 1),
         KD_LITTLE_1_1_BINDING   |-> KinCell(kin, i, "kd", 1),
         KD_1_1_BINDING_UM       |-> KinCell(kin, i, "KD1", 1000000),
         COMMENTS                |-> <<>>,
         FC                      |-> FcLabel,
         PROTEIN_RU              |-> MapChannel(kin, i, [ch \in 1..8 |-> Num(ProteinRu(ch))]),
         PROTEIN_MW              |-> MapChannel(kin, i, [ch \in 1..8 |-> Num(ProteinMw(ch))]),
         PROTEIN_ID              |-> MapChannel(kin, i, [ch \in 1..8 |-> ProteinBip(ch)]),
         PROTEIN_FLOATED_ID      |-> "protein_floated_BIP",
         PROTEIN_FLOATED_CONC_UM |-> "protein_floated_conc_uM",
         PROTEIN_FLOATED_MW      |-> "protein_floated_MW",
         MW                      |-> Num(df_cmpd_set[i].MW),
         INSTRUMENT              |-> config.instrument,
         EXP_DATE                |-> ExperimentDate,
         NUCLEOTIDE              |-> "nucleotide",
         CHIP_LOT                |-> "chip_lot",
         OPERATOR                |-> "operator",
         PROTOCOL_ID             |-> "protocol",
         RAW_DATA_FILE           |-> config.raw_data_filename,
         DIR_FOLDER              |-> "directory_folder",
         UNIQUE_ID               |-> UniqueId(kin, i),
         SS_IMG_ID               |-> ImgId(PathSsImg, ImgCell(kin, i, "Steady_State_Img")),
         SENSO_IMG_ID            |-> ImgId(PathSensoImg, ImgCell(kin, i, "Senso_Img"))]
        @@ base

\* df.loc[:, columns]: the listed columns in the listed order; KeyError when
\* one is missing
CanSelectColumns(cols, wanted) == Range(wanted) \subseteq Range(cols)

\* lines 359-445: the remaining columns, then the rearrangement
Assemble ==
    /\ pc = "assemble"
    /\ LET cols == df_final.cols \o AssembledColumns
       IN  IF ~HasTokenColumn(df_ss_senso) \/ ~CanSelectColumns(cols, FinalColumns)
           THEN /\ pc' = "failed"
                /\ err' = "KeyError"
                /\ UNCHANGED df_final
           ELSE /\ pc' = "emit"
                /\ df_final' =
                       [cols |-> FinalColumns,
                        rows |-> [i \in 1..Len(df_final.rows) |->
                                     [c \in Range(FinalColumns) |-> AssembledRow(i)[c]]]]
                /\ UNCHANGED err
    /\ UNCHANGED <<cwd, readLog, config, src, df_cmpd_set, df_ss_senso, img_dir,
                   fc_arr, max_theory, percent_disp, joined, saved>>

\* lines 36-38: path + '/' + image name raises TypeError on a NaN name
CanInsertImages(df) ==
    \A i \in 1..Len(df) : df[i].Steady_State_Img # NaN /\ df[i].Senso_Img # NaN

\* lines 447-505: write the two sheets and the images, then save the file
Emit ==
    /\ pc = "emit"
    /\ IF CanInsertImages(df_ss_senso)
       THEN pc' = "done" /\ saved' = TRUE /\ UNCHANGED err
       ELSE pc' = "failed" /\ err' = "TypeError" /\ UNCHANGED saved
    /\ UNCHANGED <<cwd, readLog, config, src, df_cmpd_set, df_ss_senso, img_dir,
                   fc_arr, max_theory, percent_disp, joined, df_final>>

Next ==
    \/ LoadConfig
    \/ ReadKinetics
    \/ RenameSs
    \/ RenameSenso
    \/ StartTable
    \/ MaxDisp
    \/ TopConc
    \/ Assemble
    \/ Emit

Spec == Init /\ [][Next]_vars

-----------------------------------------------------------------------------
(* The three functions on their own, over wider inputs *)

SeqsUpTo(D, n) == UNION {[1..k -> D] : k \in 0..n}

SubsetsUpTo(S, n) == {T \in SUBSET S : Cardinality(T) <= n}

BaseConfig ==
    [clip |-> FALSE, num_fc_used |-> <<"2">>, immobilized_fc |-> <<"1", ",", "2">>,
     instrument |-> "BiacoreS200", path_report_pt |-> "report.xlsx",
     raw_data_filename |-> RawLong]

\* rename_images: at most MaxKinRows kinetics rows and MaxImages images per
\* directory
MaxKinRows == 2
MaxImages == 2

RenameKinRows ==
    {KinRow(ch, label, 2, 7000, 14, 3) : ch \in {1, 2, 10}, label \in {LabelA, LabelB}}

RenameSsPrefixes == {<<"1">>, <<"2">>, <<"1", "0">>, <<"x">>}
RenameSensoPrefixes == {<<"1">>, <<"2">>}

InitRename ==
    /\ pc = "rename_ss"
    /\ err = NoErr
    /\ cwd = StartDir
    /\ readLog = <<>>
    /\ config = BaseConfig
    /\ src = [cmpd_set |-> <<>>, ss_and_senso |-> <<>>, report_pt |-> <<>>]
    /\ df_cmpd_set = <<>>
    /\ df_ss_senso \in SeqsUpTo(RenameKinRows, MaxKinRows)
    /\ \E ss \in SubsetsUpTo(RenameSsPrefixes, MaxImages),
          se \in SubsetsUpTo(RenameSensoPrefixes, MaxImages) :
           img_dir = [d \in {PathSsImg, PathSensoImg} |->
                          IF d = PathSsImg THEN {ImgName(x, "a") : x \in ss}
                          ELSE {ImgName(x, "b") : x \in se}]
    /\ fc_arr = <<>>
    /\ max_theory = <<>>
    /\ percent_disp = <<>>
    /\ joined = <<>>
    /\ df_final = EmptyFinal
    /\ saved = FALSE

NextRename == RenameSs \/ RenameSenso

SpecRename == InitRename /\ [][NextRename]_vars

\* calc_max_theory_disp: reports of at most MaxBlankRows rows.  A row is a
\* blank of channel 1 or 2, or a row that is no blank of a channel used:
\* one of channel 3, a Raw one, one of another step, one of a concentration
\* other than 0.
MaxBlankRows == 4

BlankRowKinds ==
    {[Channel |-> 1, SensorgramType |-> "Corrected", Name |-> LateName,
      Conc |-> 0, RelResp |-> v] : v \in {-10000, -12000, -8000, -6000}}
    \cup
    {[Channel |-> 2, SensorgramType |-> "Corrected", Name |-> LateName,
      Conc |-> 0, RelResp |-> v] : v \in {-8000, -6000}}
    \cup
    {[Channel |-> 3, SensorgramType |-> "Corrected", Name |-> LateName,
      Conc |-> 0, RelResp |-> -7000],
     [Channel |-> 1, SensorgramType |-> "Raw", Name |-> LateName,
      Conc |-> 0, RelResp |-> -7000],
     [Channel |-> 1, SensorgramType |-> "Corrected", Name |-> "A-B-A baseline_1",
      Conc |-> 0, RelResp |-> -7000],
     [Channel |-> 1, SensorgramType |-> "Corrected", Name |-> LateName,
      Conc |-> 1000, RelResp |-> -7000]}

\* the rows of a report, numbered by cycle
ReportOf(kinds, flank) ==
    [i \in 1..Len(kinds) |->
        RptRow(i, kinds[i].Channel, kinds[i].SensorgramType, kinds[i].Name,
               "Analysis", kinds[i].RelResp, kinds[i].Conc, flank)]

FcOrders == {<<1>>, <<1, 2>>, <<2, 1>>}

InitMaxDisp ==
    /\ pc = "max_disp"
    /\ err = NoErr
    /\ cwd = StartDir
    /\ readLog = <<>>
    /\ config = BaseConfig
    /\ \E kinds \in SeqsUpTo(BlankRowKinds, MaxBlankRows) :
           src = [cmpd_set |-> <<>>, ss_and_senso |-> <<>>,
                  report_pt |-> ReportOf(kinds, LabelA)]
    /\ df_cmpd_set = <<>>
    /\ df_ss_senso = <<>>
    /\ img_dir = [d \in {PathSsImg, PathSensoImg} |-> {}]
    /\ fc_arr \in FcOrders
    /\ max_theory = <<>>
    /\ percent_disp = <<>>
    /\ joined = <<>>
    /\ df_final = EmptyFinal
    /\ saved = FALSE

NextMaxDisp == MaxDisp

SpecMaxDisp == InitMaxDisp /\ [][NextMaxDisp]_vars

\* spr_displacement_top_conc: reports of at most MaxRptRows rows and compound
\* sets of at most MaxCmpdRows rows.  A report row passes the three filters
\* or fails exactly one of them.
MaxRptRows == 2
MaxCmpdRows == 2

TopConcRowKinds ==
    {[Channel |-> y[1], Flank |-> y[2], Conc |-> c, StepPurpose |-> "Analysis",
      SensorgramType |-> "Corrected", Name |-> LateName] :
        y \in {<<1, LabelA>>, <<1, LabelA2>>, <<2, LabelB>>},
        c \in {1000, 1001, 1006}}
    \cup
    {[Channel |-> 1, Flank |-> LabelA, Conc |-> 1000, StepPurpose |-> "Startup",
      SensorgramType |-> "Corrected", Name |-> LateName],
     [Channel |-> 1, Flank |-> LabelA, Conc |-> 1000, StepPurpose |-> "Analysis",
      SensorgramType |-> "Raw", Name |-> LateName],
     [Channel |-> 1, Flank |-> LabelA, Conc |-> 1000, StepPurpose |-> "Analysis",
      SensorgramType |-> "Corrected", Name |-> "A-B-A baseline_1"]}

\* the response of the row of cycle i
RespOfCycle(i) == -(45004 + 1001 * i)

TopConcReportOf(kinds) ==
    [i \in 1..Len(kinds) |->
        RptRow(i, kinds[i].Channel, kinds[i].SensorgramType, kinds[i].Name,
               kinds[i].StepPurpose, RespOfCycle(i), kinds[i].Conc, kinds[i].Flank)]

TopConcCmpdRows ==
    {CmpdRow(BroadIdA, 1001, 300000), CmpdRow(BroadIdA, 1006, 300000),
     CmpdRow(BroadIdB, 1006, 410000)}

InitTopConc ==
    /\ pc = "top_conc"
    /\ err = NoErr
    /\ cwd = StartDir
    /\ readLog = <<>>
    /\ \E instr \in {"BiacoreS200", "Biacore8k"} :
           config = [BaseConfig EXCEPT !.instrument = instr]
    /\ \E kinds \in SeqsUpTo(TopConcRowKinds, MaxRptRows) :
           src = [cmpd_set |-> <<>>, ss_and_senso |-> <<>>,
                  report_pt |-> TopConcReportOf(kinds)]
    /\ df_cmpd_set \in SeqsUpTo(TopConcCmpdRows, MaxCmpdRows)
    /\ df_ss_senso = <<>>
    /\ img_dir = [d \in {PathSsImg, PathSensoImg} |-> {}]
    /\ fc_arr = <<1, 2>>
    /\ max_theory = <<>>
    /\ percent_disp = <<>>
    /\ joined = <<>>
    /\ df_final = EmptyFinal
    /\ saved = FALSE

NextTopConc == TopConc

SpecTopConc == InitTopConc /\ [][NextTopConc]_vars

\* The table stages on their own (lines 329-505), from the state the two
\* renames leave: compound-set tables of at most MaxTableCmpdRows rows,
\* kinetics tables of one or two rows with their image names, reports made
\* of at most MaxTableBlanks blank rows followed by the top-concentration rows.
MaxTableCmpdRows == 2
MaxTableBlanks == 2

TableCmpdRows == {CmpdRow(BroadIdA, 50004, 300000), CmpdRow(BroadIdB, 25000, 410000)}

\* a kinetics row as rename_images returns it after both calls
RenamedRow(kin, rand_ss, rand_senso) ==
    [Steady_State_Img |-> NewName(<<kin>>, <<kin>>, 1, BaseConfig.raw_data_filename, rand_ss),
     Senso_Img        |-> NewName(<<kin>>, <<kin>>, 1, BaseConfig.raw_data_filename, rand_senso)]
        @@ kin

TableKinetics ==
    LET r1 == RenamedRow(KinRow(1, LabelA, 2, 7000, 14, 3), RandLow, RandHigh - 1)
        r2 == RenamedRow(KinRow(2, LabelB, 5, 9000, 45, 6), RandLow, RandHigh - 1)
    IN  {<<r1>>, <<r2>>, <<r1, r2>>}

\* blank responses: -100 and 0 RU on channel 1, -12 RU on channel 2
TableBlankKinds ==
    {[Channel |-> 1, RelResp |-> -100000], [Channel |-> 1, RelResp |-> 0],
     [Channel |-> 2, RelResp |-> -12000]}

\* the top-concentration rows that follow the blanks, before they are
\* numbered by cycle
TableAnalyses ==
    LET a1 == RptRow(0, 1, "Corrected", LateName, "Analysis", -55000, 50000, LabelA)
        a2 == RptRow(0, 2, "Corrected", LateName, "Analysis", -3000, 25000, LabelB)
    IN  {<<>>, <<a1>>, <<a1, a2>>}

TableReportOf(blanks, analyses) ==
    LET rows == [i \in 1..Len(blanks) |->
                    RptRow(0, blanks[i].Channel, "Corrected", LateName, "Analysis",
                           blanks[i].RelResp, 0, LabelA)] \o analyses
    IN  [i \in 1..Len(rows) |-> [rows[i] EXCEPT !.Cycle = i]]

InitTable ==
    /\ pc = "start_table"
    /\ err = NoErr
    /\ cwd = StartDir
    /\ config = BaseConfig
    /\ readLog = <<CmpdSetSource(config), "path_ss_and_senso_txt">>
    /\ \E blanks \in SeqsUpTo(TableBlankKinds, MaxTableBlanks), analyses \in TableAnalyses :
           src = [cmpd_set |-> <<>>, ss_and_senso |-> <<>>,
                  report_pt |-> TableReportOf(blanks, analyses)]
    /\ df_cmpd_set \in SeqsUpTo(TableCmpdRows, MaxTableCmpdRows)
    /\ df_ss_senso \in TableKinetics
    /\ img_dir = [d \in {PathSsImg, PathSensoImg} |->
                     {df_ss_senso[i][IF d = PathSsImg THEN "Steady_State_Img" ELSE "Senso_Img"] :
                          i \in 1..Len(df_ss_senso)}]
    /\ fc_arr \in FcOrders
    /\ max_theory = <<>>
    /\ percent_disp = <<>>
    /\ joined = <<>>
    /\ df_final = EmptyFinal
    /\ saved = FALSE

NextTable == StartTable \/ MaxDisp \/ TopConc \/ Assemble \/ Emit

SpecTable == InitTable /\ [][NextTable]_vars

-----------------------------------------------------------------------------
(* The renaming stages of a run, and of the runs started after it *)

\* solution labels: one without any '-', one that begins with an integer
\* followed by '-'
LabelPlain == <<"c", "p", "d">>
LabelNum   == <<"7", "-", "x">>

RerunKinRows ==
    {KinRow(1, LabelA, 2, 7000, 14, 3), KinRow(2, LabelPlain, 2, 7000, 14, 3),
     KinRow(1, LabelNum, 2, 7000, 14, 3)}

RerunSsPrefixes == {<<"1">>, <<"2">>, <<"x">>}

\* The kinetics file holds src.ss_and_senso; lines 313-321 have read it and
\* the first rename_images call is about to be made.
InitRerun ==
    /\ pc = "rename_ss"
    /\ err = NoErr
    /\ cwd = StartDir
    /\ readLog = <<>>
    /\ config = BaseConfig
    /\ df_ss_senso \in SeqsUpTo(RerunKinRows, MaxKinRows)
    /\ src = [cmpd_set |-> <<>>, ss_and_senso |-> df_ss_senso, report_pt |-> <<>>]
    /\ df_cmpd_set = <<>>
    /\ \E ss \in SubsetsUpTo(RerunSsPrefixes, MaxImages),
          se \in SubsetsUpTo(RenameSensoPrefixes, MaxImages) :
           img_dir = [d \in {PathSsImg, PathSensoImg} |->
                          IF d = PathSsImg THEN {ImgName(x, "a") : x \in ss}
                          ELSE {ImgName(x, "b") : x \in se}]
    /\ fc_arr = <<>>
    /\ max_theory = <<>>
    /\ percent_disp = <<>>
    /\ joined = <<>>
    /\ df_final = EmptyFinal
    /\ saved = FALSE

\* spr_create_dot_upload_file called once more on the same configuration,
\* after the renaming stages have completed or after a run has raised: the
\* kinetics file is read afresh (lines 313-321), the image directories are as
\* the earlier run left them, and the working directory is the starting one
\* (a new process) or the one the earlier call left (the same interpreter).
Restart ==
    /\ pc \in {"start_table", "failed"}
    /\ pc' = "rename_ss"
    /\ err' = NoErr
    /\ cwd' \in {StartDir, cwd}
    /\ df_ss_senso' = src.ss_and_senso
    /\ UNCHANGED <<readLog, config, src, df_cmpd_set, img_dir, fc_arr, max_theory,
                   percent_disp, joined, df_final, saved>>

NextRerun == RenameSs \/ RenameSenso \/ Restart

SpecRerun == InitRerun /\ [][NextRerun]_vars

-----------------------------------------------------------------------------
(* The properties checked *)

\* the value of S with n - 1 smaller values in S
NthSmallest(S, n) == CHOOSE v \in S : Cardinality({u \in S : u < v}) = n - 1

\* whether sub occurs in s
Contains(s, sub) ==
    \E i \in 1..(Len(s) - Len(sub) + 1) : SubSeq(s, i, i + Len(sub) - 1) = sub

\* no file of either image directory has been given a new name
NoImageRenamed == \A d \in DOMAIN img_dir : img_dir[d] \subseteq OrigImageNames

\* C1, as stated: whenever int(num_fc_used) differs from the number of
\* entries of immobilized_fc, the run ends in RuntimeError with no data source
\* read at all (not even the compound-set table) and no image renamed.
C1_RejectedBeforeAnyRead ==
    (pc # "load" /\ ChannelCountMismatch(config)) =>
        /\ pc = "failed"
        /\ err = "RuntimeError"
        /\ readLog = <<>>
        /\ df_ss_senso = <<>>
        /\ NoImageRenamed

\* C1, amended: whenever int(num_fc_used) differs from the number of entries
\* of immobilized_fc, the run ends in RuntimeError; by then the compound-set
\* table (CSV or clipboard) has been read, and nothing else: neither the
\* kinetics export nor the report-point export, and no image has been renamed.
C1_RejectedAfterCompoundSetRead ==
    (pc # "load" /\ ChannelCountMismatch(config)) =>
        /\ pc = "failed"
        /\ err = "RuntimeError"
        /\ readLog = <<CmpdSetSource(config)>>
        /\ df_ss_senso = <<>>
        /\ cwd = StartDir
        /\ NoImageRenamed

C1_MismatchRejected ==
    /\ pc = "failed"
    /\ err = "RuntimeError"
    /\ config.num_fc_used = <<"1">>
    /\ config.immobilized_fc = <<"1", ",", "2">>
    /\ config.clip
    /\ readLog = <<"clipboard">>
    /\ img_dir[PathSsImg] # {}

\* C2, as stated: the table of a successful run has exactly 31 columns.
C2_ThirtyOneColumns ==
    pc = "done" => Len(df_final.cols) = 31

\* C2, amended: the table of every successful run, of any number of rows, has
\* exactly 33 columns, always the same ones in the same order (the 31 up to
\* UNIQUE_ID, then SS_IMG_ID and SENSO_IMG_ID), and every row has exactly
\* these columns.
C2_ThirtyThreeColumns ==
    pc = "done" =>
        /\ saved
        /\ Len(df_final.cols) = 33
        /\ df_final.cols = FinalColumns
        /\ \A i, j \in 1..Len(df_final.cols) :
               df_final.cols[i] = df_final.cols[j] => i = j
        /\ df_final.cols[1] = "BROAD_ID"
        /\ df_final.cols[31] = "UNIQUE_ID"
        /\ df_final.cols[32] = "SS_IMG_ID"
        /\ df_final.cols[33] = "SENSO_IMG_ID"
        /\ \A i \in 1..Len(df_final.rows) :
               DOMAIN df_final.rows[i] = Range(df_final.cols)

C2_OneRowTableWritten ==
    /\ pc = "done"
    /\ saved
    /\ Len(df_final.rows) = 1
    /\ Len(df_final.cols) = 33

\* C3, as stated: every call of rename_images, whether it returns or raises,
\* leaves the working directory as it found it.
C3_WorkingDirectoryRestored ==
    [][(pc \in {"rename_ss", "rename_senso"}) => cwd' = cwd]_vars

\* C4, as stated: a call of rename_images on a directory without images does
\* not fail, renames nothing, gives no row an image name, and the pipeline
\* goes on to its next stage.
C4_EmptyDirectoryTolerated ==
    [][/\ (pc = "rename_ss" /\ img_dir[PathSsImg] = {}) =>
              /\ err' = NoErr
              /\ pc' = "rename_senso"
              /\ img_dir' = img_dir
              /\ \A i \in 1..Len(df_ss_senso') : df_ss_senso'[i].Steady_State_Img = NaN
       /\ (pc = "rename_senso" /\ img_dir[PathSensoImg] = {}) =>
              /\ err' = NoErr
              /\ pc' = "start_table"
              /\ img_dir' = img_dir
              /\ \A i \in 1..Len(df_ss_senso') : df_ss_senso'[i].Senso_Img = NaN
      ]_vars

\* the directory and the image column of the rename stage about to run
StagePath == IF pc = "rename_ss" THEN PathSsImg ELSE PathSensoImg
StageColumn == IF pc = "rename_ss" THEN "Steady_State_Img" ELSE "Senso_Img"

\* the directory holds as many images as there are kinetics rows, their
\* prefixes integers that differ pairwise
DistinctPrefixPerRow(files, df) ==
    /\ Cardinality(files) = Len(df)
    /\ \A f \in files : CanParseInt(Split(f, "-")[1])
    /\ \A f, g \in files :
           DigitsValue(Split(f, "-")[1]) = DigitsValue(Split(g, "-")[1]) => f = g

\* C5, as stated: after a call of rename_images on N images of pairwise
\* distinct integer prefixes and N kinetics rows, the image column of every
\* row of the channel-sorted table names a file of the directory whose name
\* contains the row's own solution label and the row's own channel number.
C5_RowChannelInName ==
    [][(/\ pc \in {"rename_ss", "rename_senso"}
        /\ DistinctPrefixPerRow(img_dir[StagePath], df_ss_senso)
        /\ err' = NoErr) =>
           \A k \in 1..Len(df_ss_senso') :
               LET row  == df_ss_senso'[k]
                   name == row[StageColumn]
               IN  /\ \A j \in 1..(k - 1) : df_ss_senso'[j].Channel <= row.Channel
                   /\ name \in img_dir'[StagePath]
                   /\ Contains(name, row.Solution)
                   /\ Contains(name, IntToStr(row.Channel))
      ]_vars

\* the positions in the report of the blank rows of flow channel fc
BlankPositions(fc) ==
    {i \in 1..Len(src.report_pt) :
        /\ src.report_pt[i].Channel = fc
        /\ src.report_pt[i].SensorgramType = "Corrected"
        /\ src.report_pt[i].Name = LateName
        /\ src.report_pt[i].Conc = 0}

\* the response of the n-th blank row of fc in report order
BlankResp(fc, n) == src.report_pt[NthSmallest(BlankPositions(fc), n)].RelResp

\* the number of values fc contributes: one per pair, and one more for a
\* last blank left without a partner
ValuesOf(fc) == (Cardinality(BlankPositions(fc)) + 1) \div 2

RECURSIVE ValuesBefore(_)
\* the number of values contributed by the channels before the p-th of fc_arr
ValuesBefore(p) ==
    IF p <= 1 THEN 0 ELSE ValuesBefore(p - 1) + ValuesOf(fc_arr[p - 1])

\* C6: the Series calc_max_theory_disp returns is, channel by channel in the
\* order of fc_used_arr, the values -(a + b) / 2 of the consecutive pairs
\* (1st, 2nd), (3rd, 4th), ... of the channel's blank rows taken in report
\* order; only Corrected 'A-B-A binding late_1' rows of concentration 0 of a
\* channel of fc_used_arr count; a channel of 2m blanks gives exactly m
\* values; the blanks -10, -12, -8, -6 give [11, 7].
C6_PairwiseBlankAverages ==
    pc = "top_conc" =>
        /\ Len(max_theory) = ValuesBefore(Len(fc_arr) + 1)
        /\ \A p \in 1..Len(fc_arr) :
               LET fc == fc_arr[p]
                   n  == Cardinality(BlankPositions(fc))
               IN  /\ n % 2 = 0 => ValuesOf(fc) * 2 = n
                   /\ \A j \in 1..(n \div 2) :
                          2 * max_theory[ValuesBefore(p) + j] =
                              -(BlankResp(fc, 2 * j - 1) + BlankResp(fc, 2 * j))
        /\ (/\ fc_arr = <<1>>
            /\ Cardinality(BlankPositions(1)) = 4
            /\ <<BlankResp(1, 1), BlankResp(1, 2), BlankResp(1, 3), BlankResp(1, 4)>>
                   = <<-10000, -12000, -8000, -6000>>)
               => max_theory = <<11000, 7000>>

C6_FourBlanksTwoValues ==
    /\ pc = "top_conc"
    /\ fc_arr = <<1>>
    /\ Len(src.report_pt) = 4
    /\ [i \in 1..4 |-> src.report_pt[i].RelResp] = <<-10000, -12000, -8000, -6000>>
    /\ BlankPositions(1) = 1..4
    /\ max_theory = <<11000, 7000>>

C6_TwoChannelsCallerOrder ==
    /\ pc = "top_conc"
    /\ fc_arr = <<2, 1>>
    /\ Cardinality(BlankPositions(1)) = 2
    /\ Cardinality(BlankPositions(2)) = 2
    /\ BlankPositions(1) = {1, 2}
    /\ max_theory = <<7000, 11000>>

\* a report-point row passes the three row filters
PassesFilters(r) ==
    r.StepPurpose = "Analysis" /\ r.SensorgramType = "Corrected" /\ r.Name = LateName

\* a compound-set row has the short identifier of the report-point row and
\* the same concentration once both are rounded to 2 decimals
KeysAgree(r, c) ==
    CmpdBrdMerge(c) = RptBrdMerge(r) /\ Round2(c.TestCpd) = Round2(r.Conc)

\* the report-point rows entitled to contribute
Entitled(rpt, cmpd) ==
    {i \in 1..Len(rpt) :
        PassesFilters(rpt[i]) /\ \E j \in 1..Len(cmpd) : KeysAgree(rpt[i], cmpd[j])}

\* C7, as stated: a call of spr_displacement_top_conc that gets past the
\* instrument check raises no error, whatever rows the tables hold, and each
\* row of its joined result (one value of the Series each) comes from a
\* report-point row that passes the three filters and agrees with some
\* compound-set row on short identifier and rounded concentration.
C7_UnmatchedRowsDroppedSilently ==
    [][(pc = "top_conc" /\ config.instrument # "Biacore8k") =>
           /\ err' = NoErr
           /\ Len(percent_disp') = Len(joined')
           /\ \A j \in 1..Len(joined') :
                  \E i \in Entitled(src.report_pt, df_cmpd_set) :
                      /\ joined'[j].Cycle = src.report_pt[i].Cycle
                      /\ percent_disp'[j] = Round2(-src.report_pt[i].RelResp)
      ]_vars

\* the (flanking solution, rounded concentration) pairs that survive the join
SurvivingPairs ==
    {<<src.report_pt[i].Flank, Round2(src.report_pt[i].Conc)>> :
        i \in Entitled(src.report_pt, df_cmpd_set)}

\* C8: after a call that returns, the joined result holds exactly one row
\* for each (flanking solution, rounded concentration) pair that survived
\* the join and no other row, however often the pair was measured and
\* however many compound-set rows it matched; the Series has one value per
\* pair.
C8_OneRowPerPair ==
    pc = "assemble" =>
        /\ \A p \in SurvivingPairs :
               Cardinality({j \in 1..Len(joined) :
                               <<joined[j].Flank, joined[j].Conc>> = p}) = 1
        /\ \A j \in 1..Len(joined) :
               <<joined[j].Flank, joined[j].Conc>> \in SurvivingPairs
        /\ Len(percent_disp) = Cardinality(SurvivingPairs)

C8_RepeatedPairCollapsed ==
    /\ pc = "assemble"
    /\ Len(src.report_pt) = 2
    /\ Entitled(src.report_pt, df_cmpd_set) = {1, 2}
    /\ Cardinality(SurvivingPairs) = 1
    /\ Len(df_cmpd_set) = 2
    /\ \A j \in 1..2 : KeysAgree(src.report_pt[1], df_cmpd_set[j])
    /\ Len(joined) = 1
    /\ Len(percent_disp) = 1

\* concentrations that round to 1.00 and to 1.01, in thousandths
ConcVariants == {1000, 1001, 1006, 1009}

\* C9: the result of a call of spr_displacement_top_conc (the error or its
\* absence, the joined rows, the Series and, when the call returns, the
\* rounded compound-set table left to the caller) is the result of the call
\* on the same tables with any one concentration, of a report-point row or
\* of a compound-set row, replaced by another value that rounds to the same
\* 2-decimal number.
C9_SameResultForSameRounding ==
    [][pc = "top_conc" =>
           /\ \A i \in 1..Len(src.report_pt) :
                  \A c \in {v \in ConcVariants : Round2(v) = Round2(src.report_pt[i].Conc)} :
                      LET r == spr_displacement_top_conc(
                                   config.path_report_pt,
                                   [src.report_pt EXCEPT ![i].Conc = c],
                                   df_cmpd_set, config.instrument)
                      IN  /\ r.err = err'
                          /\ r.joined = joined'
                          /\ r.series = percent_disp'
                          /\ r.cmpd = df_cmpd_set'
           /\ \A i \in 1..Len(df_cmpd_set) :
                  \A c \in {v \in ConcVariants : Round2(v) = Round2(df_cmpd_set[i].TestCpd)} :
                      LET r == spr_displacement_top_conc(
                                   config.path_report_pt, src.report_pt,
                                   [df_cmpd_set EXCEPT ![i].TestCpd = c],
                                   config.instrument)
                      IN  /\ r.err = err'
                          /\ r.joined = joined'
                          /\ r.series = percent_disp'
                          /\ r.err = NoErr => r.cmpd = df_cmpd_set'
      ]_vars

C9_UnroundedConcentrationJoined ==
    /\ pc = "assemble"
    /\ \E i \in 1..Len(src.report_pt) :
           /\ src.report_pt[i].Conc = 1001
           /\ \E j \in 1..Len(joined) :
                  /\ joined[j].Cycle = src.report_pt[i].Cycle
                  /\ joined[j].Conc = 1000
                  /\ joined[j].TestCpd = 1000

\* C10, as stated: spr_displacement_top_conc raises ValueError, before it
\* reads the report-point file, for every instrument other than 'Biacore8k',
\* and goes on to the derivation for 'Biacore8k'.
C10_OnlyBiacore8kAccepted ==
    [][pc = "top_conc" =>
           /\ config.instrument # "Biacore8k" =>
                  (err' = "ValueError" /\ readLog' = readLog)
           /\ config.instrument = "Biacore8k" => err' # "ValueError"
      ]_vars

\* the place of a stage in the order of the pipeline; a run that failed has
\* left it
StageRank ==
    [s \in {"load", "read_kinetics", "rename_ss", "rename_senso", "start_table",
            "max_disp", "top_conc", "assemble", "emit", "done", "failed"} |->
        CASE s = "load"          -> 1
          [] s = "read_kinetics" -> 2
          [] s = "rename_ss"     -> 3
          [] s = "rename_senso"  -> 4
          [] s = "start_table"   -> 5
          [] s = "max_disp"      -> 6
          [] s = "top_conc"      -> 7
          [] s = "assemble"      -> 8
          [] s = "emit"          -> 9
          [] s = "done"          -> 10
          [] s = "failed"        -> 11]

\* the data sources a run reads, in the order it reads them
SourcesOfFullRun ==
    <<CmpdSetSource(config), "path_ss_and_senso_txt", "path_report_pt", "path_report_pt">>

\* readLog is what a run has read when it is about to run the stage pc
ReadSoFar(stage) ==
    SubSeq(SourcesOfFullRun, 1,
           CASE StageRank[stage] <= 1 -> 0
             [] StageRank[stage] = 2  -> 1
             [] StageRank[stage] <= 6 -> 2
             [] StageRank[stage] = 7  -> 3
             [] OTHER                 -> 4)

\* C12: a step of the run either moves to the next stage in the order load,
\* read, rename steady-state images, rename sensorgram images, start the
\* table, max displacement, top-concentration displacement, assemble, emit,
\* done, or raises and ends the run; nothing runs after a failure or after
\* the end, so no stage runs twice and none is retried; a stage is reached
\* only with no error raised and with everything before it read; the
\* spreadsheet is written by the last stage only, and never in a run that
\* raised.
C12_LinearNoRetryNoPartialOutput ==
    [][/\ pc' \in {"failed"} \cup {s \in DOMAIN StageRank : StageRank[s] = StageRank[pc] + 1}
       /\ pc \notin {"done", "failed"}
       /\ (pc' = "failed") <=> (err' # NoErr)
       /\ err = NoErr
       /\ pc' # "failed" => readLog' = ReadSoFar(pc')
       /\ saved' <=> (pc' = "done")
       /\ saved' => (pc = "emit" /\ ~saved)
      ]_vars

C12_FailedLateNothingWritten ==
    /\ pc = "failed"
    /\ err = "TypeError"
    /\ df_final.cols = FinalColumns
    /\ readLog = SourcesOfFullRun
    /\ ~saved

\* whether s ends with suffix
EndsWith(s, suffix) ==
    Len(suffix) <= Len(s) /\ SubSeq(s, Len(s) - Len(suffix) + 1, Len(s)) = suffix

\* the max theoretical displacements the blank pairs of channel ch give
MaxTheoryOfChannel(ch) ==
    {v \in Range(max_theory) :
        \E j \in 1..(Cardinality(BlankPositions(ch)) \div 2) :
            2 * v = -(BlankResp(ch, 2 * j - 1) + BlankResp(ch, 2 * j))}

\* every cell of output row i that holds a value holds one of channel ch
RowFromChannel(i, ch) ==
    LET row == df_final.rows[i]
    IN  /\ IsNum(row.MAX_THEORETICAL_DISP_RU) =>
               row.MAX_THEORETICAL_DISP_RU.v \in MaxTheoryOfChannel(ch)
        /\ i <= Len(joined) => joined[i].Channel = ch
        /\ i <= Len(df_ss_senso) =>
               /\ df_ss_senso[i].Channel = ch
               /\ row.IC50_UM = Num(df_ss_senso[i].KD * 1000000)
               /\ row.KA_1_1_BINDING = Num(df_ss_senso[i].ka)
               /\ row.KD_LITTLE_1_1_BINDING = Num(df_ss_senso[i].kd)
               /\ row.PROTEIN_RU = Num(ProteinRu(ch))
               /\ row.PROTEIN_MW = Num(ProteinMw(ch))
               /\ row.PROTEIN_ID = ProteinBip(ch)
        /\ row.SS_IMG_ID # NaN => EndsWith(row.SS_IMG_ID, <<"_">> \o IntToStr(ch) \o <<Png>>)
        /\ row.SENSO_IMG_ID # NaN =>
               EndsWith(row.SENSO_IMG_ID, <<"_">> \o IntToStr(ch) \o <<Png>>)

\* C14, as stated: in every row of the assembled table the max theoretical
\* displacement, the top-concentration displacement, the kinetics constants,
\* the protein descriptors and the image references are those of one and the
\* same channel, whatever the order of immobilized_fc and the number of blank
\* pairs of a channel.
C14_RowFromOneChannel ==
    pc \in {"emit", "done"} =>
        \A i \in 1..Len(df_final.rows) : \E ch \in 1..8 : RowFromChannel(i, ch)

\* C15, as stated: a call of spr_displacement_top_conc leaves the caller's
\* compound-set table as it was: no column added, no concentration altered.
C15_CompoundSetUnchanged ==
    [][pc = "top_conc" => df_cmpd_set' = df_cmpd_set]_vars

\* C11: from the start of the table to the end of the run the table has
\* exactly one row per row of the compound-set table, the i-th with the i-th
\* compound's identifier, whatever the numbers of kinetics rows, images,
\* max-displacement values and joined values; in the assembled table a row
\* past the last max-displacement value, the last joined value or the last
\* kinetics row has an empty cell there, and values past the last row of the
\* table appear nowhere.
C11_OneRowPerCompound ==
    (pc \in {"max_disp", "top_conc", "assemble", "emit", "done"}) =>
        /\ Len(df_final.rows) = Len(df_cmpd_set)
        /\ \A i \in 1..Len(df_final.rows) :
               df_final.rows[i].BROAD_ID = df_cmpd_set[i].BroadID
        /\ (pc \in {"emit", "done"}) =>
               \A i \in 1..Len(df_final.rows) :
                   LET row == df_final.rows[i]
                   IN  /\ row.MAX_THEORETICAL_DISP_RU =
                              (IF i <= Len(max_theory) THEN Num(max_theory[i]) ELSE NanNum)
                       /\ i > Len(percent_disp) => row.RU_TOP_CMPD = NanNum
                       /\ row.KA_1_1_BINDING =
                              (IF i <= Len(df_ss_senso) THEN Num(df_ss_senso[i].ka) ELSE NanNum)
                       /\ i > Len(df_ss_senso) =>
                              (row.SS_IMG_ID = NaN /\ row.SENSO_IMG_ID = NaN)

C11_MoreCompoundsThanKinetics ==
    /\ pc = "emit"
    /\ Len(df_cmpd_set) = 2
    /\ Len(df_final.rows) = 2
    /\ Len(df_ss_senso) = 1
    /\ Len(max_theory) = 1
    /\ Len(percent_disp) = 1
    /\ df_final.rows[1].BROAD_ID = BroadIdB
    /\ df_final.rows[2].BROAD_ID = BroadIdA
    /\ df_final.rows[2].KA_1_1_BINDING = NanNum

C11_FewerCompoundsThanValues ==
    /\ pc = "done"
    /\ Len(df_cmpd_set) = 1
    /\ Len(df_final.rows) = 1
    /\ Len(df_ss_senso) = 2
    /\ Len(max_theory) = 2

\* |x|
Abs(x) == IF x < 0 THEN -x ELSE x

\* C13: in every row of the assembled table, RU_TOP_CMPD is
\* MAX_THEORETICAL_DISP_RU minus the top-concentration displacement at the
\* row's position, which is the negated relative response of the joined row
\* rounded to 2 decimals; DISP_TOP_CMPD is the multiple of 0.01 nearest to
\* RU_TOP_CMPD / MAX_THEORETICAL_DISP_RU x 100; a maximum of 100 with
\* RU_TOP_CMPD 45 gives 45.0; a maximum of zero gives no number (an infinity
\* or NaN).
C13_DisplacementArithmetic ==
    (pc \in {"emit", "done"}) =>
        \A i \in 1..Len(df_final.rows) :
            LET row == df_final.rows[i]
                mx  == row.MAX_THEORETICAL_DISP_RU
                ru  == row.RU_TOP_CMPD
                dp  == row.DISP_TOP_CMPD
            IN  /\ (IsNum(mx) /\ i <= Len(percent_disp)) =>
                       /\ percent_disp[i] = Round2(-joined[i].RelResp)
                       /\ ru = Num(mx.v - percent_disp[i])
                /\ (IsNum(mx) /\ IsNum(ru) /\ mx.v # 0) =>
                       /\ IsNum(dp)
                       /\ dp.v % 10 = 0
                       /\ 2 * Abs((dp.v \div 10) * mx.v - 10000 * ru.v) <= Abs(mx.v)
                /\ (mx = Num(100000) /\ ru = Num(45000)) => dp = Num(45000)
                /\ mx = Num(0) => ~IsNum(dp)
                /\ ~(IsNum(mx) /\ IsNum(ru)) => dp = NanNum

C13_HundredAndFortyFive ==
    /\ pc = "done"
    /\ Len(df_final.rows) >= 1
    /\ df_final.rows[1].MAX_THEORETICAL_DISP_RU = Num(100000)
    /\ Len(percent_disp) >= 1
    /\ percent_disp[1] = 55000
    /\ df_final.rows[1].RU_TOP_CMPD = Num(45000)
    /\ df_final.rows[1].DISP_TOP_CMPD = Num(45000)

C13_ZeroMaximum ==
    /\ pc = "done"
    /\ Len(df_final.rows) >= 1
    /\ df_final.rows[1].MAX_THEORETICAL_DISP_RU = Num(0)
    /\ df_final.rows[1].RU_TOP_CMPD = Num(-55000)
    /\ df_final.rows[1].DISP_TOP_CMPD = Inf(1)

-----------------------------------------------------------------------------
\* the label begins with an integer followed by '-'
LabelBeginsWithInteger(label) ==
    Contains(label, <<"-">>) /\ CanParseInt(Split(label, "-")[1])

NoLabelBeginsWithInteger ==
    \A i \in 1..Len(df_ss_senso) : ~LabelBeginsWithInteger(df_ss_senso[i].Solution)

\* every file of the non-empty set has a '-'-delimited prefix that is no integer
NoIntegerPrefix(files) ==
    files # {} /\ \A f \in files : ~CanParseInt(Split(f, "-")[1])

\* the name is one rename_images gives for a row of the kinetics file
IsRenamedName(f) ==
    \E k \in 1..Len(src.ss_and_senso), r \in RandLow..(RandHigh - 1), ch \in 1..10 :
        f = src.ss_and_senso[k].Solution \o <<"_">> \o config.raw_data_filename
                \o <<"_">> \o IntToStr(r) \o <<"_">> \o IntToStr(ch) \o <<Png>>

RenameStageOf(d) == IF d = PathSsImg THEN "rename_ss" ELSE "rename_senso"

C16_RerunAfterAbortedRun ==
    /\ pc = "failed"
    /\ err = "ValueError"
    /\ cwd = PathSsImg
    /\ NoLabelBeginsWithInteger
    /\ NoIntegerPrefix(img_dir[PathSsImg])
    /\ \A f \in img_dir[PathSsImg] : IsRenamedName(f)
    /\ \E x \in RenameSensoPrefixes : ImgName(x, "b") \in img_dir[PathSensoImg]

\* with a label that begins with an integer followed by '-', a later run has
\* renamed the renamed file again, under the label's number as its channel
C16_IntegerLabelRenamedAgain ==
    \E f \in img_dir[PathSsImg] :
        /\ IsRenamedName(f)
        /\ EndsWith(f, <<"_", "7", Png>>)

=============================================================================
